---- MODULE Spec2Model ----
(***************************************************************************)
(* Model of the EPUBGenerator class of pdf-to-epub.ts (and its copy in     *)
(* public/app.jsx): the book model (metadata, uuid, pages), the document   *)
(* renderers (content.opf, toc.ncx, nav.xhtml, per-page XHTML) and the     *)
(* archive assembler generate(), which hands entries to JSZip.             *)
(*                                                                         *)
(* Representation.  Metadata strings (title, author, language) are         *)
(* sequences of one-character strings, because escapeXML works on          *)
(* characters.  File names, ids and numbers rendered into documents are    *)
(* TLA+ strings built with \o exactly as the template literals build them. *)
(* A generated document is a record of the values its template             *)
(* interpolates; the fixed text of the template is left out.  The          *)
(* dcterms:modified timestamp (wall clock) is not modelled.                *)
(*                                                                         *)
(* The two callers of the class, convertPDFToEPUB (pdf-to-epub.ts) and     *)
(* convertToEPUB of the App component (public/app.jsx), are modelled as    *)
(* one run whose steps are the blocks of code between two awaits; conv     *)
(* holds the caller's locals and, for the App, its React state.            *)
(***************************************************************************)
EXTENDS Integers, Sequences, FiniteSets, TLC

VARIABLES title, author, language, uuid, pages, archive, conv

vars == <<title, author, language, uuid, pages, archive, conv>>

book == <<title, author, language, uuid, pages>>

(***************************************************************************)
(* Bounds of the model.                                                    *)
(***************************************************************************)
MaxPages == 2

MaxStrLen == 3

NumSeeds == 1

(***************************************************************************)
(* JavaScript primitives used by the code.                                 *)
(***************************************************************************)
\* The width handed to padStart in every page-number rendering.
PadWidth == 3

\* Number.prototype.toString(16) of one value 0..15 (also one decimal digit).
HexDigit(v) ==
  CASE v = 0 -> "0" [] v = 1 -> "1" [] v = 2 -> "2" [] v = 3 -> "3"
    [] v = 4 -> "4" [] v = 5 -> "5" [] v = 6 -> "6" [] v = 7 -> "7"
    [] v = 8 -> "8" [] v = 9 -> "9" [] v = 10 -> "a" [] v = 11 -> "b"
    [] v = 12 -> "c" [] v = 13 -> "d" [] v = 14 -> "e" [] v = 15 -> "f"

\* String(n) for a non-negative integer n: its decimal digits.
RECURSIVE String(_)
String(n) == IF n < 10 THEN HexDigit(n) ELSE String(n \div 10) \o HexDigit(n % 10)

\* s.padStart(targetLength, fill) for a one-character fill.
RECURSIVE padStart(_, _, _)
padStart(s, targetLength, fill) ==
  IF Len(s) >= targetLength THEN s ELSE padStart(fill \o s, targetLength, fill)

\* Mutant: the number is rendered without padding.
Num_Unpadded(n) == String(n)

\* const num = String(n).padStart(3, '0')
Num(n) == padStart(String(n), PadWidth, "0")

\* `${Math.max(...xs)}`: Math.max of no arguments is -Infinity.
RECURSIVE MathMax(_)
MathMax(xs) ==
  IF Len(xs) = 1 THEN xs[1]
  ELSE LET m == MathMax(Tail(xs)) IN IF xs[1] > m THEN xs[1] ELSE m

MaxStr(xs) == IF xs = <<>> THEN "-Infinity" ELSE String(MathMax(xs))

\* str.replace(/c/g, rep) on a sequence of characters.
RECURSIVE replaceAll(_, _, _)
replaceAll(str, c, rep) ==
  IF str = <<>> THEN <<>>
  ELSE (IF Head(str) = c THEN rep ELSE <<Head(str)>>) \o replaceAll(Tail(str), c, rep)

\* Mutant: the ampersand is replaced last, after the entities were inserted.
escapeXML_AmpersandLast(str) ==
  LET s1 == replaceAll(str, "<", <<"&", "l", "t", ";">>)
      s2 == replaceAll(s1, ">", <<"&", "g", "t", ";">>)
      s3 == replaceAll(s2, "\"", <<"&", "q", "u", "o", "t", ";">>)
      s4 == replaceAll(s3, "'", <<"&", "a", "p", "o", "s", ";">>)
  IN  replaceAll(s4, "&", <<"&", "a", "m", "p", ";">>)

escapeXML(str) ==
  LET s1 == replaceAll(str, "&", <<"&", "a", "m", "p", ";">>)
      s2 == replaceAll(s1, "<", <<"&", "l", "t", ";">>)
      s3 == replaceAll(s2, ">", <<"&", "g", "t", ";">>)
      s4 == replaceAll(s3, "\"", <<"&", "q", "u", "o", "t", ";">>)
  IN  replaceAll(s4, "'", <<"&", "a", "p", "o", "s", ";">>)

(***************************************************************************)
(* generateUUID: every x of the template is replaced by a random hex       *)
(* digit r, the y by (r & 0x3) | 0x8, the other characters are kept.       *)
(* draws is the sequence of values (Math.random() * 16) | 0, one for each  *)
(* x or y, in template order.                                              *)
(***************************************************************************)
UUIDTemplate ==
  << "x", "x", "x", "x", "x", "x", "x", "x", "-",
     "x", "x", "x", "x", "-",
     "4", "x", "x", "x", "-",
     "y", "x", "x", "x", "-",
     "x", "x", "x", "x", "x", "x", "x", "x", "x", "x", "x", "x" >>

\* The number of x and y characters among the first k of the template.
RECURSIVE Replaced(_)
Replaced(k) ==
  IF k = 0 THEN 0
  ELSE Replaced(k - 1) + (IF UUIDTemplate[k] \in {"x", "y"} THEN 1 ELSE 0)

\* Mutant: the variant digit keeps three random bits, r | 0x8.
UUIDChar_WideVariant(k, draws) ==
  LET c == UUIDTemplate[k]
      r == draws[Replaced(k)]
  IN  IF c = "x" THEN HexDigit(r)
      ELSE IF c = "y" THEN HexDigit((r % 8) + 8)
      ELSE c

UUIDChar(k, draws) ==
  LET c == UUIDTemplate[k]
      r == draws[Replaced(k)]
  IN  IF c = "x" THEN HexDigit(r)
      ELSE IF c = "y" THEN HexDigit((r % 4) + 8)
      ELSE c

RECURSIVE UUIDPrefix(_, _)
UUIDPrefix(k, draws) ==
  IF k = 0 THEN "" ELSE UUIDPrefix(k - 1, draws) \o UUIDChar(k, draws)

generateUUID(draws) == UUIDPrefix(Len(UUIDTemplate), draws)

\* The outcomes of the random source the model explores.
DrawSeqs == { [i \in 1..Replaced(Len(UUIDTemplate)) |-> (s + 5 * i) % 16] : s \in 0..(NumSeeds - 1) }

(***************************************************************************)
(* Constructor.  options is a function from a subset of the option keys;   *)
(* `options.k || dflt` takes the default for a missing key and for ''.     *)
(***************************************************************************)
Untitled == <<"U", "n", "t", "i", "t", "l", "e", "d">>

Unknown == <<"U", "n", "k", "n", "o", "w", "n">>

En == <<"e", "n">>

\* Mutant: only a missing key takes the default (options.k ?? dflt).
OrDefault_KeepsEmpty(options, key, dflt) ==
  IF key \in DOMAIN options THEN options[key] ELSE dflt

OrDefault(options, key, dflt) ==
  IF key \in DOMAIN options /\ options[key] # <<>> THEN options[key] ELSE dflt

constructor(options, draws) ==
  /\ title = OrDefault(options, "title", Untitled)
  /\ author = OrDefault(options, "author", Unknown)
  /\ language = OrDefault(options, "language", En)
  /\ uuid = generateUUID(draws)
  /\ pages = <<>>
  /\ archive = [status |-> "none", calls |-> <<>>]

(***************************************************************************)
(* Document renderers.  Index k below is the code's i + 1.                 *)
(***************************************************************************)
getMimetype == "application/epub+zip"

getContainer == [rootfile |-> "OEBPS/content.opf"]

ManifestHead ==
  << [id |-> "css", href |-> "styles/fixed-layout.css", properties |-> ""],
     [id |-> "ncx", href |-> "toc.ncx", properties |-> ""],
     [id |-> "nav", href |-> "nav.xhtml", properties |-> "nav"] >>

ManifestPages ==
  [k \in 1..Len(pages) |->
     [id |-> "page" \o Num(k), href |-> "xhtml/page_" \o Num(k) \o ".xhtml",
      properties |-> ""]]

CoverProps(k) == IF k = 1 THEN "cover-image" ELSE ""

ManifestImages ==
  [k \in 1..Len(pages) |->
     [id |-> "img" \o Num(k), href |-> "images/page_" \o Num(k) \o ".png",
      properties |-> CoverProps(k)]]

Spine ==
  [k \in 1..Len(pages) |->
     [idref |-> "page" \o Num(k),
      properties |-> "rendition:layout-pre-paginated rendition:spread-none"]]

Widths == [k \in 1..Len(pages) |-> pages[k].width]

Heights == [k \in 1..Len(pages) |-> pages[k].height]

Resolution == MaxStr(Widths) \o "x" \o MaxStr(Heights)

OPFTitle == escapeXML(title)

OPFLanguage == language

OPFCreator == escapeXML(author)

getContentOPF ==
  [identifier |-> "urn:uuid:" \o uuid,
   title      |-> OPFTitle,
   language   |-> OPFLanguage,
   creator    |-> OPFCreator,
   resolution |-> Resolution,
   manifest   |-> ManifestHead \o ManifestPages \o ManifestImages,
   spine      |-> Spine,
   guide      |-> [type |-> "cover", href |-> "xhtml/page_001.xhtml"]]

NavPoints ==
  [k \in 1..Len(pages) |->
     [id |-> "navpoint" \o String(k), playOrder |-> String(k),
      text |-> "Page " \o String(k),
      src |-> "xhtml/page_" \o Num(k) \o ".xhtml"]]

\* Mutant: getNCX draws a new identifier instead of reading this.uuid.
NCXUid_Regenerated ==
  "urn:uuid:" \o generateUUID([i \in 1..Replaced(Len(UUIDTemplate)) |-> 0])

NCXUid == "urn:uuid:" \o uuid

getNCX ==
  [uid            |-> NCXUid,
   totalPageCount |-> String(Len(pages)),
   maxPageNumber  |-> String(Len(pages)),
   docTitle       |-> escapeXML(title),
   navMap         |-> NavPoints]

NavToc ==
  [k \in 1..Len(pages) |->
     [href |-> "xhtml/page_" \o Num(k) \o ".xhtml", text |-> "Page " \o String(k)]]

NavPageList ==
  [k \in 1..Len(pages) |->
     [href |-> "xhtml/page_" \o Num(k) \o ".xhtml", text |-> String(k)]]

getNav == [lang |-> language, toc |-> NavToc, pageList |-> NavPageList]

\* The stylesheet is one fixed text; it is abbreviated to its first line.
getCSS == "@charset \"UTF-8\";"

getPageXHTML(pageNum, width, height) ==
  [lang     |-> language,
   viewport |-> "width=" \o String(width) \o ", height=" \o String(height),
   title    |-> "Page " \o String(pageNum),
   imgSrc   |-> "../images/page_" \o Num(pageNum) \o ".png",
   imgAlt   |-> "Page " \o String(pageNum)]

(***************************************************************************)
(* generate(): the calls zip.file(name, data, options) in program order,   *)
(* which are the entries of the archive the returned promise resolves to.  *)
(* compression is "STORE" where the call passes { compression: 'STORE' }   *)
(* and "DEFAULT" where it passes no compression option.  The image entry   *)
(* carries the page's imageData as given (pdf-to-epub.ts); app.jsx hands   *)
(* over the base64 part of the data URL with { base64: true }, the same    *)
(* bytes.                                                                  *)
(***************************************************************************)
File(name, data, compression) ==
  [name |-> name, data |-> data, compression |-> compression]

\* Mutant: the compression option of the mimetype call is forgotten.
MimetypeCall_Deflated == File("mimetype", getMimetype, "DEFAULT")

MimetypeCall == File("mimetype", getMimetype, "STORE")

ControlCalls ==
  << MimetypeCall,
     File("META-INF/container.xml", getContainer, "DEFAULT"),
     File("OEBPS/content.opf", getContentOPF, "DEFAULT"),
     File("OEBPS/toc.ncx", getNCX, "DEFAULT"),
     File("OEBPS/nav.xhtml", getNav, "DEFAULT"),
     File("OEBPS/styles/fixed-layout.css", getCSS, "DEFAULT") >>

\* Mutant: the image of a page is written before its markup.
PageCalls_ImageFirst(page) ==
  << File("OEBPS/images/page_" \o Num(page.pageNum) \o ".png",
          page.imageData, "DEFAULT"),
     File("OEBPS/xhtml/page_" \o Num(page.pageNum) \o ".xhtml",
          getPageXHTML(page.pageNum, page.width, page.height), "DEFAULT") >>

\* The two calls of one iteration of `for (const page of this.pages)`.
PageCalls(page) ==
  << File("OEBPS/xhtml/page_" \o Num(page.pageNum) \o ".xhtml",
          getPageXHTML(page.pageNum, page.width, page.height), "DEFAULT"),
     File("OEBPS/images/page_" \o Num(page.pageNum) \o ".png",
          page.imageData, "DEFAULT") >>

\* Mutant: the loop walks the pages from the last to the first.
RECURSIVE PageLoop_Reversed(_)
PageLoop_Reversed(ps) ==
  IF ps = <<>> THEN <<>> ELSE PageLoop_Reversed(Tail(ps)) \o PageCalls(Head(ps))

RECURSIVE PageLoop(_)
PageLoop(ps) ==
  IF ps = <<>> THEN <<>> ELSE PageCalls(Head(ps)) \o PageLoop(Tail(ps))

generate == [status |-> "ok", calls |-> ControlCalls \o PageLoop(pages)]

\* generate() is async: it makes its zip.file calls when it is called and
\* suspends at `await zip.generateAsync(..)`; the archive of these calls is
\* delivered in a later turn of the event loop.  archive is the promise of
\* the latest generate() call: "pending" from the call to the delivery.
generatePending == [generate EXCEPT !.status = "pending"]

(***************************************************************************)
(* generate() with a failing archive writer.  The writer's operation       *)
(* number at fails with error: one of the zip.file calls throws, or (at    *)
(* one past the last call) the promise of zip.generateAsync rejects.       *)
(* generate() has no try/catch and returns `await zip.generateAsync(..)`,  *)
(* so its promise rejects with that error and delivers no archive.  A      *)
(* throwing zip.file call ends generate() before it suspends; a rejection  *)
(* of zip.generateAsync ends a pending generate().                         *)
(***************************************************************************)
WriterErrors == { "ENOSPC: no space left on device", "EIO: i/o error" }

\* The number of zip.file calls generate() makes before its page loop.
ControlEntries == 6

\* The failing operations tried: the first write, the first write after the
\* control entries, the serialization.
FaultPoints == {1, ControlEntries + 1, ControlEntries + 2 * Len(pages) + 1}

\* Mutant: the failure is caught and what was written so far is returned.
generateFailing_Swallowed(at, error) ==
  [status |-> "ok", calls |-> SubSeq(ControlCalls \o PageLoop(pages), 1, at - 1)]

generateFailing(at, error) == [status |-> "failed", error |-> error, calls |-> <<>>]

(***************************************************************************)
(* Inputs.                                                                 *)
(***************************************************************************)
OptionKeys == {"title", "author", "language"}

TitleValues == { <<>>, <<"A", "&", "B">> }

AuthorValues == { <<"C", "<", "'">> }

LanguageValues == { <<"r", "u">>, <<"e", "\"", ">">> }

OptionValues(key) ==
  IF key = "title" THEN TitleValues
  ELSE IF key = "author" THEN AuthorValues ELSE LanguageValues

Options ==
  UNION { { o \in [keys -> TitleValues \cup AuthorValues \cup LanguageValues] :
              \A key \in keys : o[key] \in OptionValues(key) } :
          keys \in SUBSET OptionKeys }

PageNums == (1..MaxPages) \cup {1000}

Renders ==
  { [imageData |-> "pngA", width |-> 300, height |-> 400],
    [imageData |-> "pngB", width |-> 600, height |-> 200] }

(***************************************************************************)
(* Actions.                                                                *)
(***************************************************************************)
\* The value of conv while the class is used without one of the two callers.
NoCaller == [kind |-> "none", pc |-> "idle"]

Init ==
  /\ \E options \in Options, draws \in DrawSeqs : constructor(options, draws)
  /\ conv = NoCaller

\* Mutant: the record is put at the front (unshift instead of push).
addPage_Unshift(imageData, width, height, pageNum) ==
  /\ Len(pages) < MaxPages
  /\ pages' = <<[imageData |-> imageData, width |-> width,
                 height |-> height, pageNum |-> pageNum]>> \o pages
  /\ UNCHANGED <<title, author, language, uuid, archive>>

addPage(imageData, width, height, pageNum) ==
  /\ Len(pages) < MaxPages
  /\ pages' = Append(pages, [imageData |-> imageData, width |-> width,
                             height |-> height, pageNum |-> pageNum])
  /\ UNCHANGED <<title, author, language, uuid, archive>>

AddPage ==
  /\ \E r \in Renders, n \in PageNums : addPage(r.imageData, r.width, r.height, n)
  /\ UNCHANGED conv

\* A call of generate(), up to its await.
Generate ==
  /\ archive' = generatePending
  /\ UNCHANGED book
  /\ UNCHANGED conv

\* The promise of zip.generateAsync resolves: the pending generate() returns.
GenerateDelivers ==
  /\ archive.status = "pending"
  /\ archive' = [archive EXCEPT !.status = "ok"]
  /\ UNCHANGED book
  /\ UNCHANGED conv

\* The operations that can fail in the current state: a zip.file call of a
\* generate() called now, or the serialization of the pending generate().
FaultPointsNow == FaultPoints \cup {Len(archive.calls) + 1}

generateFails(at, error) ==
  /\ \/ at \in FaultPoints /\ at <= ControlEntries + 2 * Len(pages)
     \/ archive.status = "pending" /\ at = Len(archive.calls) + 1
  /\ archive' = generateFailing(at, error)
  /\ UNCHANGED book
  /\ UNCHANGED conv

GenerateFails ==
  \E at \in FaultPointsNow, error \in WriterErrors : generateFails(at, error)

Next == AddPage \/ Generate \/ GenerateDelivers \/ GenerateFails

Spec == Init /\ [][Next]_vars

(***************************************************************************)
(* A second specification for escapeXML: the constructor receives every    *)
(* string of at most MaxStrLen characters over the five special            *)
(* characters and the letters of '&amp;', and some longer strings that     *)
(* already look escaped, as title or as author; one page is added and the  *)
(* book is generated.                                                      *)
(***************************************************************************)
EscAlphabet == {"&", "<", ">", "\"", "'", "a", "m", "p", ";"}

EntityLike ==
  { <<"&", "a", "m", "p", ";">>,
    <<"&", "l", "t", ";">>,
    <<"&", "a", "m", "p", ";", "l", "t", ";">>,
    <<"&", "a", "p", "o", "s", ";">>,
    <<"&", "#", "3", "8", ";">>,
    <<"A", "u", "t", "h", "o", "r", " ", "&", " ", "C", "o", ".">> }

EscInputs == UNION { [1..k -> EscAlphabet] : k \in 0..MaxStrLen } \cup EntityLike

InitEscape ==
  /\ \E str \in EscInputs, key \in {"title", "author"} :
       constructor([k \in {key} |-> str], CHOOSE draws \in DrawSeqs : TRUE)
  /\ conv = NoCaller

AddFirstPage ==
  /\ pages = <<>>
  /\ addPage("pngA", 300, 400, 1)
  /\ UNCHANGED conv

NextEscape == AddFirstPage \/ Generate \/ GenerateDelivers

SpecEscape == InitEscape /\ [][NextEscape]_vars

(***************************************************************************)
(* A third specification for generateUUID: the random source delivers, at  *)
(* every replaced position, each of the values 0..15 (start value s) in    *)
(* MaxStride + 1 different patterns.                                       *)
(***************************************************************************)
MaxStride == 6

UUIDDrawSeqs ==
  { [i \in 1..Replaced(Len(UUIDTemplate)) |-> (s + t * i) % 16] :
      s \in 0..15, t \in 0..MaxStride }

InitUUID ==
  /\ \E draws \in UUIDDrawSeqs : constructor([k \in {} |-> <<>>], draws)
  /\ conv = NoCaller

NextUUID == AddFirstPage \/ Generate \/ GenerateDelivers

SpecUUID == InitUUID /\ [][NextUUID]_vars

(***************************************************************************)
(* The callers: convertPDFToEPUB (command line) and App.convertToEPUB      *)
(* (browser).  conv holds                                                   *)
(*   kind        "cli" or "app"                                            *)
(*   pc          the await the run is suspended at, or idle / done / failed*)
(*   options     the command-line options, or the App's metadata state     *)
(*   dpi         options.dpi (0: absent or not a number), or the App's dpi *)
(*               state                                                     *)
(*   file        the input path (NoFile: fewer than two arguments), or     *)
(*               the name of the App's file state (NoFile: null)           *)
(*   out         the output path of the command line                       *)
(*   converting  App state converting                                      *)
(*   progress    App state progress                                        *)
(*   running     convertToEPUB invocations that have not returned          *)
(*   run         what the running invocation reads of its inputs: the      *)
(*               constructor options and the resolution.  convertToEPUB    *)
(*               is a closure over the state of the render it was clicked  *)
(*               in, so later edits do not reach a run in progress.        *)
(*   i, totalPages, page   the loop variable, pdf.numPages and the size    *)
(*               in points of the page being rendered                      *)
(*   rendered    the page numbers whose render promise resolved            *)
(*   generates   the number of epub.generate() calls of the run            *)
(*   output      "none", "written" (fs.writeFileSync) or "downloaded"      *)
(*   error       the message of the error that ended the run               *)
(* The book variables are the run's local epub; before `new EPUBGenerator` *)
(* there is none.  In a run archive is what `await epub.generate()`        *)
(* delivers to the caller, which makes no other call while it waits.       *)
(***************************************************************************)
DefaultDPI == 150

PDFPointsPerInch == 72

\* options.dpi of the command line (0: absent or not a number).
DPIOptions == {0, 72, 300}

\* The values of the App's resolution <select>.
DPISelect == {72, 150, 300}

\* const dpi = options.dpi || 150 on the command line; the App uses its state.
EffectiveDPI(kind, d) == IF kind = "cli" /\ d = 0 THEN DefaultDPI ELSE d

\* The size in PDF points of page i of the documents tried: odd pages are
\* US Letter, even pages A4.
PagePoints(i) ==
  IF i % 2 = 1 THEN [w |-> 612, h |-> 792] ELSE [w |-> 595, h |-> 842]

NoPage == [w |-> 0, h |-> 0]

\* Math.round(points * scale) with scale = dpi / 72, for positive values.
RoundScaled(points, dpi) ==
  (2 * points * dpi + PDFPointsPerInch) \div (2 * PDFPointsPerInch)

\* canvas.toBuffer('image/png') / canvas.toDataURL('image/png') of a page.
PNGOf(pt) == IF pt.w = 612 THEN "pngA" ELSE "pngB"

\* Input paths of the command line (without a directory part).
InputPaths ==
  { <<"b", "o", "o", "k", ".", "p", "d", "f">>,
    <<"v", ".", "p", "d", "f", "2", ".", "p", "d", "f">> }

\* Names of the files dropped on the App.
DroppedFiles == { <<"b", "o", "o", "k", ".", "p", "d", "f">> }

NoFile == <<>>

DotPdf == <<".", "p", "d", "f">>

\* The first position at which pat occurs in s, 0 if there is none.
IndexOf(s, pat) ==
  LET hits == { i \in 1..(Len(s) - Len(pat) + 1) :
                  SubSeq(s, i, i + Len(pat) - 1) = pat }
  IN  IF hits = {} THEN 0 ELSE CHOOSE i \in hits : \A j \in hits : i <= j

\* name.replace('.pdf', ''): the first occurrence is removed.
replaceFirst(s, pat, by) ==
  LET i == IndexOf(s, pat)
  IN  IF i = 0 THEN s
      ELSE SubSeq(s, 1, i - 1) \o by \o SubSeq(s, i + Len(pat), Len(s))

\* path.basename(p, ext) of a path without a directory part: a trailing
\* ext is removed.
basename(p, ext) ==
  IF Len(ext) <= Len(p) /\ SubSeq(p, Len(p) - Len(ext) + 1, Len(p)) = ext
    THEN SubSeq(p, 1, Len(p) - Len(ext))
    ELSE p

CallerOptionSets ==
  { [k \in {} |-> <<>>],
    [k \in {"title", "language"} |->
       IF k = "title" THEN <<"A", "&", "B">> ELSE <<"r", "u">>] }

\* useState({ title: '', author: '', language: 'en' })
InitialMetadata ==
  [k \in OptionKeys |-> IF k = "language" THEN En ELSE <<>>]

\* What the user types or selects in the metadata form.
MetadataEdits(key) ==
  IF key = "title" THEN { <<>>, <<"A", "&", "B">> }
  ELSE IF key = "author" THEN { <<>>, <<"C">> }
  ELSE { En, <<"r", "u">> }

\* The options object both callers hand to the constructor; fileTitle is
\* the title taken from the file name.
CallerOptions(o, fileTitle) ==
  [k \in OptionKeys |->
     IF k = "title" THEN OrDefault(o, "title", fileTitle)
     ELSE IF k = "author" THEN OrDefault(o, "author", Unknown)
     ELSE OrDefault(o, "language", En)]

NoRun == [options |-> [k \in {} |-> <<>>], dpi |-> 0]

\* Output paths of the command line.
OutputPaths == { "out.epub", "nodir/out.epub" }

\* A sequence of characters as one string.
RECURSIVE Joined(_)
Joined(chars) == IF chars = <<>> THEN "" ELSE Head(chars) \o Joined(Tail(chars))

\* What main() prints when it is given fewer than two arguments.
UsageText == "PDF to EPUB Converter"

\* What main() prints when fs.existsSync(inputPath) is false.
NotFoundText(path) == "Error: Input file not found: " \o Joined(path)

\* Errors fs.readFileSync(inputPath) throws for a path that exists.
ReadErrors == { "EISDIR: illegal operation on a directory, read" }

\* Errors fs.writeFileSync(outputPath, epubBuffer) throws.
WriteErrors(out) ==
  { "ENOENT: no such file or directory, open '" \o out \o "'",
    "EISDIR: illegal operation on a directory, open '" \o out \o "'" }

\* Rejection reasons of the awaited promises, by the await that rejects.
BufferErrors == { "The requested file could not be read" }

LoadErrors == { "Invalid PDF structure." }

PageErrors == { "Invalid page request." }

RenderErrors == { "Rendering cancelled" }

NoProgress == [current |-> 0, total |-> 0, status |-> ""]

NoArchive == [status |-> "none", calls |-> <<>>]

NoBook ==
  /\ title = <<>>
  /\ author = <<>>
  /\ language = <<>>
  /\ uuid = ""
  /\ pages = <<>>

\* The command line with its arguments, or the App as first rendered.
InitConvert ==
  /\ NoBook
  /\ archive = NoArchive
  /\ \E kind \in {"cli", "app"} :
       \E o \in (IF kind = "cli" THEN CallerOptionSets ELSE {InitialMetadata}),
          d \in (IF kind = "cli" THEN DPIOptions ELSE {DefaultDPI}),
          f \in (IF kind = "cli" THEN InputPaths \cup {NoFile} ELSE {NoFile}),
          out \in (IF kind = "cli" THEN OutputPaths ELSE {""}) :
         conv = [kind |-> kind, pc |-> "idle", options |-> o, dpi |-> d,
                 file |-> f, out |-> out,
                 converting |-> FALSE, progress |-> NoProgress,
                 running |-> 0, run |-> NoRun,
                 i |-> 0, totalPages |-> 0, page |-> NoPage, rendered |-> {},
                 generates |-> 0, output |-> "none", error |-> ""]

\* handleFileDrop with a PDF: setFile(droppedFile) and the title taken from
\* its name.
SelectFile ==
  /\ conv.kind = "app"
  /\ \E f \in DroppedFiles :
       conv' = [conv EXCEPT !.file = f,
                            !.options["title"] = replaceFirst(f, DotPdf, <<>>)]
  /\ UNCHANGED <<book, archive>>

\* The inputs of the metadata form, rendered while a file is chosen.
SetMetadata ==
  /\ conv.kind = "app"
  /\ conv.file # NoFile
  /\ \E key \in OptionKeys :
       \E value \in MetadataEdits(key) :
         conv' = [conv EXCEPT !.options[key] = value]
  /\ UNCHANGED <<book, archive>>

\* The resolution <select> of the metadata form.
SetDpi ==
  /\ conv.kind = "app"
  /\ conv.file # NoFile
  /\ \E d \in DPISelect : conv' = [conv EXCEPT !.dpi = d]
  /\ UNCHANGED <<book, archive>>

\* The last statement of loadPreview: setProgress(prev => ({...prev, total})).
PreviewLoaded ==
  /\ conv.kind = "app"
  /\ conv.file # NoFile
  /\ \E numPages \in 1..MaxPages :
       /\ conv.progress.total # numPages
       /\ conv' = [conv EXCEPT !.progress.total = numPages]
  /\ UNCHANGED <<book, archive>>

\* main() with fewer than two arguments: the usage text and process.exit(1).
UsageExit ==
  /\ conv.kind = "cli"
  /\ conv.pc = "idle"
  /\ conv.file = NoFile
  /\ conv' = [conv EXCEPT !.pc = "failed", !.error = UsageText]
  /\ UNCHANGED <<book, archive>>

\* main() with an input path that does not exist: the message and
\* process.exit(1); convertPDFToEPUB is not called.
InputMissing ==
  /\ conv.kind = "cli"
  /\ conv.pc = "idle"
  /\ conv.file # NoFile
  /\ conv' = [conv EXCEPT !.pc = "failed", !.error = NotFoundText(conv.file)]
  /\ UNCHANGED <<book, archive>>

\* main() calls convertPDFToEPUB, which runs up to its first await.
StartCLI ==
  /\ conv.kind = "cli"
  /\ conv.pc = "idle"
  /\ conv.file # NoFile
  /\ conv' = [conv EXCEPT !.pc = "loadingPDF", !.running = 1,
                          !.run = [options |-> CallerOptions(conv.options,
                                                  basename(conv.file, DotPdf)),
                                   dpi |-> EffectiveDPI("cli", conv.dpi)]]
  /\ UNCHANGED <<book, archive>>

\* The Convert button: disabled={!file || converting}.
ButtonEnabled == conv.file # NoFile /\ ~conv.converting

\* A click on the Convert button: convertToEPUB up to its first await.
ClickConvert ==
  /\ conv.kind = "app"
  /\ ButtonEnabled
  /\ conv' = [conv EXCEPT !.pc = "loadingBuffer", !.converting = TRUE,
                          !.progress = [current |-> 0, total |-> 0,
                                        status |-> "Loading PDF..."],
                          !.running = @ + 1,
                          !.run = [options |-> CallerOptions(conv.options,
                                                  replaceFirst(conv.file, DotPdf, <<>>)),
                                   dpi |-> EffectiveDPI("app", conv.dpi)],
                          !.i = 0, !.totalPages = 0, !.page = NoPage,
                          !.rendered = {}, !.generates = 0,
                          !.output = "none", !.error = ""]
  /\ title' = <<>>
  /\ author' = <<>>
  /\ language' = <<>>
  /\ uuid' = ""
  /\ pages' = <<>>
  /\ archive' = NoArchive

\* setProgress(p): the command line has no such state.
SetProgress(c, p) == IF c.kind = "app" THEN [c EXCEPT !.progress = p] ELSE c

\* catch (error) { setProgress({0, 0, `Error: ${error.message}`}) }
CatchBlock(c, message) ==
  [c EXCEPT !.progress = [current |-> 0, total |-> 0,
                          status |-> "Error: " \o message]]

\* Mutant: the run returns without setConverting(false).
FinallyBlock_Missing(c) == [c EXCEPT !.running = @ - 1]

\* finally { setConverting(false) }, after which convertToEPUB returns.
FinallyBlock(c) == [c EXCEPT !.converting = FALSE, !.running = @ - 1]

\* An awaited promise rejects.  In the App the catch and finally blocks run;
\* on the command line the error leaves convertPDFToEPUB and main() exits.
Rejected(c, message) ==
  LET failed == [c EXCEPT !.pc = "failed", !.error = message, !.run = NoRun]
  IN  IF c.kind = "app"
        THEN FinallyBlock(CatchBlock(failed, message))
        ELSE [failed EXCEPT !.running = 0]

\* Mutant: the loop stops one page early.
LoopContinues_OffByOne(i, totalPages) == i < totalPages

\* for (let i = 1; i <= totalPages; i++)
LoopContinues(i, totalPages) == i <= totalPages

\* The loop test with loop variable i, up to the next await: either the
\* body up to `await pdf.getPage(i)`, or the code after the loop up to
\* `await epub.generate()`.
LoopTop(c, i) ==
  IF LoopContinues(i, c.totalPages)
    THEN SetProgress([c EXCEPT !.i = i, !.pc = "gettingPage"],
                     [current |-> i, total |-> c.totalPages,
                      status |-> "Converting page " \o String(i) \o " of "
                                   \o String(c.totalPages) \o "..."])
    ELSE SetProgress([c EXCEPT !.i = i, !.pc = "generating", !.generates = @ + 1],
                     [current |-> c.totalPages, total |-> c.totalPages,
                      status |-> "Generating EPUB..."])

\* new EPUBGenerator(options) as a step of a caller.
newEPUBGenerator(options, draws) ==
  /\ title' = OrDefault(options, "title", Untitled)
  /\ author' = OrDefault(options, "author", Unknown)
  /\ language' = OrDefault(options, "language", En)
  /\ uuid' = generateUUID(draws)
  /\ pages' = <<>>

\* main() calls convertPDFToEPUB and fs.readFileSync(inputPath) throws: the
\* error reaches the catch of main(), which exits.
ReadFails ==
  /\ conv.kind = "cli"
  /\ conv.pc = "idle"
  /\ conv.file # NoFile
  /\ \E e \in ReadErrors : conv' = Rejected(conv, e)
  /\ UNCHANGED <<book, archive>>

\* await file.arrayBuffer()
BufferResolved ==
  /\ conv.pc = "loadingBuffer"
  /\ conv' = [conv EXCEPT !.pc = "loadingPDF"]
  /\ UNCHANGED <<book, archive>>

BufferRejected ==
  /\ conv.pc = "loadingBuffer"
  /\ \E e \in BufferErrors : conv' = Rejected(conv, e)
  /\ UNCHANGED <<book, archive>>

\* await pdfjsLib.getDocument(..).promise, then the code up to the first
\* await of the loop (or up to generate()).
DocumentResolved ==
  /\ conv.pc = "loadingPDF"
  /\ \E numPages \in 1..MaxPages, draws \in DrawSeqs :
       /\ conv' = LoopTop(SetProgress([conv EXCEPT !.totalPages = numPages],
                                      [current |-> 0, total |-> numPages,
                                       status |-> "Preparing..."]), 1)
       /\ newEPUBGenerator(conv.run.options, draws)
  /\ UNCHANGED archive

DocumentRejected ==
  /\ conv.pc = "loadingPDF"
  /\ \E e \in LoadErrors : conv' = Rejected(conv, e)
  /\ UNCHANGED <<book, archive>>

\* await pdf.getPage(i), then the code up to `await page.render(..).promise`.
PageResolved ==
  /\ conv.pc = "gettingPage"
  /\ conv' = [conv EXCEPT !.page = PagePoints(conv.i), !.pc = "rendering"]
  /\ UNCHANGED <<book, archive>>

PageRejected ==
  /\ conv.pc = "gettingPage"
  /\ \E e \in PageErrors : conv' = Rejected(conv, e)
  /\ UNCHANGED <<book, archive>>

\* await page.render(..).promise, then epub.addPage(..), i++ and the loop test.
RenderResolved ==
  /\ conv.pc = "rendering"
  /\ addPage(PNGOf(conv.page), RoundScaled(conv.page.w, conv.run.dpi),
             RoundScaled(conv.page.h, conv.run.dpi), conv.i)
  /\ conv' = LoopTop([conv EXCEPT !.rendered = @ \cup {conv.i}, !.page = NoPage],
                     conv.i + 1)

RenderRejected ==
  /\ conv.pc = "rendering"
  /\ \E e \in RenderErrors : conv' = Rejected(conv, e)
  /\ UNCHANGED <<book, archive>>

\* await epub.generate(), then fs.writeFileSync on the command line; in the
\* App the download, setProgress 'Complete!' and the finally block.
GenerateResolved ==
  /\ conv.pc = "generating"
  /\ conv' = IF conv.kind = "app"
               THEN FinallyBlock(
                      [conv EXCEPT !.pc = "done", !.output = "downloaded",
                                   !.run = NoRun,
                                   !.progress = [current |-> conv.totalPages,
                                                 total |-> conv.totalPages,
                                                 status |-> "Complete!"]])
               ELSE [conv EXCEPT !.pc = "done", !.output = "written",
                                 !.run = NoRun, !.running = 0]
  /\ UNCHANGED book
  /\ archive' = generate

\* await epub.generate() delivers on the command line and fs.writeFileSync
\* throws: the error reaches the catch of main(), which exits.
WriteFails ==
  /\ conv.kind = "cli"
  /\ conv.pc = "generating"
  /\ \E e \in WriteErrors(conv.out) : conv' = Rejected(conv, e)
  /\ UNCHANGED book
  /\ archive' = generate

GenerateRejected ==
  /\ conv.pc = "generating"
  /\ \E at \in FaultPoints, e \in WriterErrors :
       /\ conv' = Rejected(conv, e)
       /\ archive' = generateFailing(at, e)
  /\ UNCHANGED book

\* The awaited promises settle.
Settle ==
  \/ BufferRejected \/ BufferResolved
  \/ DocumentRejected \/ DocumentResolved
  \/ PageRejected \/ PageResolved
  \/ RenderRejected \/ RenderResolved
  \/ GenerateRejected \/ WriteFails \/ GenerateResolved

NextConvert ==
  \/ SelectFile \/ SetMetadata \/ SetDpi \/ PreviewLoaded
  \/ UsageExit \/ InputMissing \/ ReadFails \/ StartCLI
  \/ ClickConvert \/ Settle

SpecConvert == InitConvert /\ [][NextConvert]_vars

\* Every awaited promise eventually settles; nothing obliges the user to click.
SpecConvertFair == SpecConvert /\ WF_vars(Settle)

(***************************************************************************)
(* Vocabulary of the properties.                                           *)
(***************************************************************************)
\* A step in which generate() was called and made its zip.file calls; pages
\* are the pages of that call.  The archive delivered later has these calls.
Generated == archive' # archive /\ archive'.status = "pending"

\* The entries of a were written by a generate() call.
Built(a) == a.status \in {"pending", "ok"}

Names(a) == [i \in 1..Len(a.calls) |-> a.calls[i].name]

Entry(a, name) ==
  a.calls[CHOOSE i \in 1..Len(a.calls) : a.calls[i].name = name]

OPF(a) == Entry(a, "OEBPS/content.opf").data

NCX(a) == Entry(a, "OEBPS/toc.ncx").data

NAV(a) == Entry(a, "OEBPS/nav.xhtml").data

ControlNames ==
  << "mimetype", "META-INF/container.xml", "OEBPS/content.opf",
     "OEBPS/toc.ncx", "OEBPS/nav.xhtml", "OEBPS/styles/fixed-layout.css" >>

MarkupName(n) == "OEBPS/xhtml/page_" \o Num(n) \o ".xhtml"

ImageName(n) == "OEBPS/images/page_" \o Num(n) \o ".png"

MarkupNames(ps) == [k \in 1..Len(ps) |-> MarkupName(ps[k].pageNum)]

ImageNames(ps) == [k \in 1..Len(ps) |-> ImageName(ps[k].pageNum)]

IsMarkupName(name) == \E n \in PageNums : name = MarkupName(n)

IsImageName(name) == \E n \in PageNums : name = ImageName(n)

IsMarkupCall(c) == IsMarkupName(c.name)

IsImageCall(c) == IsImageName(c.name)

\* The pages carry the numbers 1..n in the order they were added.
NumberedInOrder == \A k \in 1..Len(pages) : pages[k].pageNum = k

(***************************************************************************)
(* C1. The first entry generate() hands to the archive writer is named     *)
(* mimetype, its content is application/epub+zip, it is written with the   *)
(* STORE directive, and no other entry precedes it or shares its name.     *)
(***************************************************************************)
C1_MimetypeFirst ==
  archive.status = "ok" =>
    /\ Len(archive.calls) >= 1
    /\ archive.calls[1].name = "mimetype"
    /\ archive.calls[1].data = "application/epub+zip"
    /\ archive.calls[1].compression = "STORE"
    /\ \A i \in 2..Len(archive.calls) : archive.calls[i].name # "mimetype"

C1_Witness ==
  /\ archive.status = "ok"
  /\ Len(archive.calls) >= 8
  /\ archive.calls[1].compression = "STORE"

(***************************************************************************)
(* C2 as stated. For a book with n >= 1 pages the entries are the six      *)
(* control entries, then all n markup entries, then all n image entries.   *)
(***************************************************************************)
C2_MarkupBlockThenImageBlock ==
  [][(Generated /\ Len(pages) >= 1) =>
       Names(archive') = ControlNames \o MarkupNames(pages) \o ImageNames(pages)]_vars

\* The calls of the page loop as the code makes them: markup and image of
\* the first page, markup and image of the second page, and so on.
Interleaved(ps) ==
  [j \in 1..(2 * Len(ps)) |->
     IF j % 2 = 1 THEN MarkupName(ps[(j + 1) \div 2].pageNum)
     ELSE ImageName(ps[j \div 2].pageNum)]

(***************************************************************************)
(* C2 amended. For a book with n >= 1 pages the entries are the six        *)
(* control entries in layout order, then for each page in page order its   *)
(* markup entry immediately followed by its image entry.                   *)
(***************************************************************************)
C2_ControlThenPagePairs ==
  [][(Generated /\ Len(pages) >= 1) =>
       Names(archive') = ControlNames \o Interleaved(pages)]_vars

C2_Witness ==
  /\ archive.status = "ok"
  /\ Len(archive.calls) >= 10
  /\ IsMarkupName(archive.calls[7].name)
  /\ IsImageName(archive.calls[8].name)
  /\ IsMarkupName(archive.calls[9].name)

(***************************************************************************)
(* C3. The markup entries and the image entries of the archive each come   *)
(* in the order the pages were added; when the pages were added as         *)
(* P1..Pn (page k numbered k) that order is ascending pageNumber and the   *)
(* manifest, spine, NCX navMap, nav toc and nav page-list name the same    *)
(* pages in the same order; no step reorders the pages sequence.           *)
(***************************************************************************)
PagesOnlyAppended ==
  /\ Len(pages') >= Len(pages)
  /\ \A k \in 1..Len(pages) : pages'[k] = pages[k]

ArchiveInAddOrder(a) ==
  LET markup == SelectSeq(a.calls, IsMarkupCall)
      images == SelectSeq(a.calls, IsImageCall)
  IN  /\ Len(markup) = Len(pages)
      /\ Len(images) = Len(pages)
      /\ \A k \in 1..Len(pages) :
           /\ markup[k].name = MarkupName(pages[k].pageNum)
           /\ images[k].name = ImageName(pages[k].pageNum)
           /\ images[k].data = pages[k].imageData

DocumentsInAddOrder(a) ==
  LET n == Len(pages)
      markup == SelectSeq(a.calls, IsMarkupCall)
      images == SelectSeq(a.calls, IsImageCall)
  IN  /\ Len(OPF(a).manifest) = 3 + 2 * n
      /\ Len(OPF(a).spine) = n
      /\ Len(NCX(a).navMap) = n
      /\ Len(NAV(a).toc) = n
      /\ Len(NAV(a).pageList) = n
      /\ \A k \in 1..n :
           /\ k > 1 => pages[k - 1].pageNum < pages[k].pageNum
           /\ "OEBPS/" \o OPF(a).manifest[3 + k].href = markup[k].name
           /\ "OEBPS/" \o OPF(a).manifest[3 + n + k].href = images[k].name
           /\ OPF(a).spine[k].idref = OPF(a).manifest[3 + k].id
           /\ "OEBPS/" \o NCX(a).navMap[k].src = markup[k].name
           /\ "OEBPS/" \o NAV(a).toc[k].href = markup[k].name
           /\ "OEBPS/" \o NAV(a).pageList[k].href = markup[k].name

C3_PageOrder ==
  [][/\ PagesOnlyAppended
     /\ Generated => ArchiveInAddOrder(archive')
     /\ (Generated /\ NumberedInOrder) => DocumentsInAddOrder(archive')]_vars

C3_Witness ==
  /\ archive.status = "ok"
  /\ Len(pages) >= 2
  /\ NumberedInOrder
  /\ Len(archive.calls) = 6 + 2 * Len(pages)
  /\ archive.calls[7].name = MarkupName(1)
  /\ archive.calls[9].name = MarkupName(2)

(***************************************************************************)
(* C4 (for books with at least one page; the empty book is the subject of  *)
(* C7). Every page path the generated documents reference - manifest       *)
(* hrefs, spine idrefs through the manifest, the guide cover reference,    *)
(* NCX content src, nav toc and page-list hrefs - names an entry the same  *)
(* generate() call writes, and every page entry written is referenced by   *)
(* the manifest, whatever pageNumber values the caller supplied.           *)
(***************************************************************************)
Written(a) == { a.calls[i].name : i \in 1..Len(a.calls) }

Referenced(a) ==
  { "OEBPS/" \o OPF(a).manifest[i].href : i \in 1..Len(OPF(a).manifest) }
    \cup { "OEBPS/" \o OPF(a).guide.href }
    \cup { "OEBPS/" \o NCX(a).navMap[i].src : i \in 1..Len(NCX(a).navMap) }
    \cup { "OEBPS/" \o NAV(a).toc[i].href : i \in 1..Len(NAV(a).toc) }
    \cup { "OEBPS/" \o NAV(a).pageList[i].href : i \in 1..Len(NAV(a).pageList) }

ReferencesResolve(a) ==
  /\ Referenced(a) \subseteq Written(a)
  /\ \A i \in 1..Len(OPF(a).spine) :
       \E j \in 1..Len(OPF(a).manifest) :
         /\ OPF(a).manifest[j].id = OPF(a).spine[i].idref
         /\ "OEBPS/" \o OPF(a).manifest[j].href \in Written(a)

PageEntriesInManifest(a) ==
  \A i \in 1..Len(a.calls) :
    (IsMarkupCall(a.calls[i]) \/ IsImageCall(a.calls[i])) =>
      \E j \in 1..Len(OPF(a).manifest) :
        "OEBPS/" \o OPF(a).manifest[j].href = a.calls[i].name

C4_ReferencesResolve ==
  [][(Generated /\ Len(pages) >= 1) =>
       ReferencesResolve(archive') /\ PageEntriesInManifest(archive')]_vars

\* What does hold: the references resolve when page k carries number k.
C4_ResolveWhenNumberedInOrder ==
  [][(Generated /\ Len(pages) >= 1 /\ NumberedInOrder) =>
       ReferencesResolve(archive') /\ PageEntriesInManifest(archive')]_vars

(***************************************************************************)
(* C5. In every generated package document exactly one manifest entry      *)
(* carries the cover-image property, and it is the image entry of the      *)
(* first page added.                                                       *)
(***************************************************************************)
Covers(a) ==
  { i \in 1..Len(OPF(a).manifest) : OPF(a).manifest[i].properties = "cover-image" }

C5_ExactlyOneCover ==
  [][Generated =>
       /\ Cardinality(Covers(archive')) = 1
       /\ \A i \in Covers(archive') :
            "OEBPS/" \o OPF(archive').manifest[i].href = ImageName(pages[1].pageNum)]_vars

\* What does hold: with at least one page, the one cover entry is the first
\* image item of the manifest, images/page_001.png.
C5_OneCoverWhenNonEmpty ==
  [][(Generated /\ Len(pages) >= 1) =>
       /\ Cardinality(Covers(archive')) = 1
       /\ \A i \in Covers(archive') :
            /\ i = 3 + Len(pages) + 1
            /\ OPF(archive').manifest[i].id = "img001"
            /\ OPF(archive').manifest[i].href = "images/page_001.png"]_vars

(***************************************************************************)
(* C6. The original-resolution of the package document is W x H with W     *)
(* the maximum width and H the maximum height over all pages, the two      *)
(* maxima taken independently; over no pages the maximum is taken as 0.    *)
(***************************************************************************)
MaxOf(S) == IF S = {} THEN 0 ELSE CHOOSE m \in S : \A x \in S : x <= m

C6_ResolutionIsMax ==
  [][Generated =>
       OPF(archive').resolution =
         String(MaxOf({ pages[k].width : k \in 1..Len(pages) })) \o "x"
           \o String(MaxOf({ pages[k].height : k \in 1..Len(pages) }))]_vars

\* What does hold: the same for every book with at least one page.
C6_ResolutionIsMaxWhenNonEmpty ==
  [][(Generated /\ Len(pages) >= 1) =>
       OPF(archive').resolution =
         String(MaxOf({ pages[k].width : k \in 1..Len(pages) })) \o "x"
           \o String(MaxOf({ pages[k].height : k \in 1..Len(pages) }))]_vars

(***************************************************************************)
(* C7. generate() on a book with zero pages either fails with an 'empty    *)
(* document' error or produces a container with zero page entries whose    *)
(* package document declares resolution 0x0 and references no page file    *)
(* that is absent from the archive (the archive writer not failing).       *)
(***************************************************************************)
WriterFailed(a) == a.status = "failed" /\ a.error \in WriterErrors

C7_EmptyBookOutcome ==
  [][(archive' # archive /\ Len(pages) = 0 /\ archive'.status # "pending"
        /\ ~WriterFailed(archive')) =>
       \/ /\ archive'.status = "failed"
          /\ archive'.error = "empty document"
       \/ /\ archive'.status = "ok"
          /\ Len(archive'.calls) = 6
          /\ OPF(archive').resolution = "0x0"
          /\ ReferencesResolve(archive')]_vars

(***************************************************************************)
(* C8. escapeXML's output contains none of < > " ' and contains & only as  *)
(* the start of one of the five entities, un-escaping it yields the        *)
(* original string, and dc:title and dc:creator of the package document    *)
(* carry this escaped form of title and author.                            *)
(***************************************************************************)
Entities ==
  { [text |-> <<"&", "a", "m", "p", ";">>, char |-> "&"],
    [text |-> <<"&", "l", "t", ";">>, char |-> "<"],
    [text |-> <<"&", "g", "t", ";">>, char |-> ">"],
    [text |-> <<"&", "q", "u", "o", "t", ";">>, char |-> "\""],
    [text |-> <<"&", "a", "p", "o", "s", ";">>, char |-> "'"] }

StartsWith(s, prefix) ==
  /\ Len(s) >= Len(prefix)
  /\ SubSeq(s, 1, Len(prefix)) = prefix

XMLSafe(s) ==
  \A i \in 1..Len(s) :
    /\ s[i] \notin {"<", ">", "\"", "'"}
    /\ s[i] = "&" => \E e \in Entities : StartsWith(SubSeq(s, i, Len(s)), e.text)

\* What an XML parser recovers from escaped character data.
RECURSIVE Unescape(_)
Unescape(s) ==
  IF s = <<>> THEN <<>>
  ELSE IF \E e \in Entities : StartsWith(s, e.text)
       THEN LET e == CHOOSE x \in Entities : StartsWith(s, x.text)
            IN  <<e.char>> \o Unescape(SubSeq(s, Len(e.text) + 1, Len(s)))
       ELSE <<Head(s)>> \o Unescape(Tail(s))

C8_EscapeRoundTrip ==
  archive.status = "ok" =>
    /\ XMLSafe(OPF(archive).title)
    /\ Unescape(OPF(archive).title) = title
    /\ XMLSafe(OPF(archive).creator)
    /\ Unescape(OPF(archive).creator) = author

C8_Witness ==
  /\ archive.status = "ok"
  /\ title = <<"&", "a", "m", "p", ";">>
  /\ OPF(archive).title = <<"&", "a", "m", "p", ";", "a", "m", "p", ";">>

(***************************************************************************)
(* C9. Title, author and language are XML-escaped at every place they are  *)
(* interpolated: no raw & < > " ' of a metadata value reaches the package  *)
(* document, the NCX, the nav document or a page document.                 *)
(***************************************************************************)
C9_AllMetadataEscaped ==
  archive.status = "ok" =>
    /\ XMLSafe(OPF(archive).title)
    /\ XMLSafe(OPF(archive).creator)
    /\ XMLSafe(OPF(archive).language)
    /\ XMLSafe(NCX(archive).docTitle)
    /\ XMLSafe(NAV(archive).lang)
    /\ \A i \in 1..Len(archive.calls) :
         IsMarkupCall(archive.calls[i]) => XMLSafe(archive.calls[i].data.lang)

\* What does hold: title and author are escaped wherever they appear.
C9_TitleAndAuthorEscaped ==
  archive.status = "ok" =>
    /\ XMLSafe(OPF(archive).title)
    /\ XMLSafe(OPF(archive).creator)
    /\ XMLSafe(NCX(archive).docTitle)

(***************************************************************************)
(* C10. The identifier is assigned at construction and no addPage or       *)
(* generate changes it; every generation emits urn:uuid:<identifier> in    *)
(* dc:identifier and the same value in the NCX dtb:uid, so two generations *)
(* from one book emit the same value.                                      *)
(***************************************************************************)
C10_IdentifierStable ==
  [][/\ uuid' = uuid
     /\ Built(archive') =>
          /\ OPF(archive').identifier = "urn:uuid:" \o uuid
          /\ NCX(archive').uid = OPF(archive').identifier
     /\ (Built(archive) /\ Built(archive')) =>
          OPF(archive').identifier = OPF(archive).identifier]_vars

\* A generation that followed at least one addPage call and emitted the
\* identifier of the constructor in both documents.
C10_Witness ==
  /\ archive.status = "ok"
  /\ Len(pages) >= 1
  /\ Len(archive.calls) = 6 + 2 * Len(pages)
  /\ OPF(archive).identifier = "urn:uuid:" \o uuid
  /\ NCX(archive).uid = "urn:uuid:" \o uuid

(***************************************************************************)
(* C11. For every outcome of the random source generateUUID returns a      *)
(* string of the shape xxxxxxxx-xxxx-4xxx-yxxx-xxxxxxxxxxxx: 36            *)
(* characters, hyphens after the groups of 8, 4, 4 and 4, lowercase hex    *)
(* digits elsewhere, 4 as first digit of the third group and one of        *)
(* 8, 9, a, b as first digit of the fourth group.                          *)
(***************************************************************************)
CharAt(s, i) == SubSeq(s, i, i)

HexChars ==
  { "0", "1", "2", "3", "4", "5", "6", "7", "8", "9", "a", "b", "c", "d", "e", "f" }

HyphenPositions == {9, 14, 19, 24}

C11_UUIDShape ==
  /\ Len(uuid) = 36
  /\ \A i \in 1..36 :
       IF i \in HyphenPositions THEN CharAt(uuid, i) = "-"
       ELSE CharAt(uuid, i) \in HexChars
  /\ Cardinality({ i \in 1..36 : CharAt(uuid, i) \in HexChars }) = 32
  /\ CharAt(uuid, 15) = "4"
  /\ CharAt(uuid, 20) \in {"8", "9", "a", "b"}

\* The draw for the y was 7: (7 & 0x3) | 0x8 is b.
C11_Witness ==
  /\ CharAt(uuid, 20) = "b"
  /\ CharAt(uuid, 15) = "4"
  /\ CharAt(uuid, 1) = "f"
  /\ archive.status = "ok"

(***************************************************************************)
(* C12 as stated. The constructor stores the value of every supplied       *)
(* option key as given, gives every unspecified key its default            *)
(* (Untitled, Unknown, en), and starts with an empty page list.            *)
(***************************************************************************)
Supplied(options, key, dflt) ==
  IF key \in DOMAIN options THEN options[key] ELSE dflt

\* Only such a state can be one the constructor has just returned in.
JustConstructed == pages = <<>> /\ archive.status = "none"

C12_SuppliedStoredAsGiven ==
  JustConstructed =>
    \A options \in Options, draws \in DrawSeqs :
      constructor(options, draws) =>
        /\ title = Supplied(options, "title", Untitled)
        /\ author = Supplied(options, "author", Unknown)
        /\ language = Supplied(options, "language", En)
        /\ pages = <<>>

(***************************************************************************)
(* C12 amended. The constructor stores the value of every option key       *)
(* supplied as a non-empty string as given, gives every unspecified key    *)
(* and every key supplied as the empty string its default (Untitled,       *)
(* Unknown, en), and starts with an empty page list.                       *)
(***************************************************************************)
SuppliedNonEmpty(options, key, dflt) ==
  IF key \in DOMAIN options /\ Len(options[key]) > 0 THEN options[key] ELSE dflt

C12_NonEmptyStoredAsGiven ==
  JustConstructed =>
    \A options \in Options, draws \in DrawSeqs :
      constructor(options, draws) =>
        /\ title = SuppliedNonEmpty(options, "title", Untitled)
        /\ author = SuppliedNonEmpty(options, "author", Unknown)
        /\ language = SuppliedNonEmpty(options, "language", En)
        /\ pages = <<>>

\* new EPUBGenerator({title: '', language: 'ru'}): one key supplied empty,
\* one supplied with a value, one missing.
C12_Witness ==
  /\ \E draws \in DrawSeqs :
       constructor([k \in {"title", "language"} |->
                      IF k = "title" THEN <<>> ELSE <<"r", "u">>], draws)
  /\ title = Untitled
  /\ author = Unknown
  /\ language = <<"r", "u">>

(***************************************************************************)
(* C13. addPage(imageBytes, width, height, pageNumber) extends pages by    *)
(* exactly one record, placed at the end and holding the four given        *)
(* values; the earlier records, the identifier, title, author and          *)
(* language stay as they were; any pageNumber is accepted, duplicates and  *)
(* out-of-order values included.                                           *)
(***************************************************************************)
C13_AddPageAppendsOne ==
  [][\A r \in Renders, n \in PageNums :
       addPage(r.imageData, r.width, r.height, n) =>
         /\ Len(pages') = Len(pages) + 1
         /\ DOMAIN pages'[Len(pages')] = {"imageData", "width", "height", "pageNum"}
         /\ pages'[Len(pages')].imageData = r.imageData
         /\ pages'[Len(pages')].width = r.width
         /\ pages'[Len(pages')].height = r.height
         /\ pages'[Len(pages')].pageNum = n
         /\ \A k \in 1..Len(pages) : pages'[k] = pages[k]
         /\ uuid' = uuid
         /\ title' = title
         /\ author' = author
         /\ language' = language]_vars

\* Two pages were accepted whose numbers are a duplicate or out of order.
C13_Witness ==
  /\ Len(pages) = 2
  /\ pages[1].pageNum >= pages[2].pageNum
  /\ pages[1].imageData # pages[2].imageData

(***************************************************************************)
(* C14. The archive generated from a book with n pages has exactly         *)
(* 6 + 2n entries: the six control entries and, for each page record, one  *)
(* markup entry and one image entry of its own, the image entry holding    *)
(* that page's image bytes; no two entries share a name, so no page's      *)
(* entries are replaced by another page's.                                 *)
(***************************************************************************)
C14_OwnEntriesPerPage ==
  [][Generated =>
       /\ Len(archive'.calls) = 6 + 2 * Len(pages)
       /\ Cardinality(Written(archive')) = 6 + 2 * Len(pages)
       /\ \A k \in 1..Len(pages) : \A i \in 1..Len(archive'.calls) :
            archive'.calls[i].name = ImageName(pages[k].pageNum) =>
              archive'.calls[i].data = pages[k].imageData]_vars

\* What does hold: the same for books whose page numbers are pairwise
\* different.
NumbersDistinct ==
  \A j, k \in 1..Len(pages) : j # k => pages[j].pageNum # pages[k].pageNum

C14_OwnEntriesWhenNumbersDistinct ==
  [][(Generated /\ NumbersDistinct) =>
       /\ Len(archive'.calls) = 6 + 2 * Len(pages)
       /\ Cardinality(Written(archive')) = 6 + 2 * Len(pages)
       /\ \A k \in 1..Len(pages) : \A i \in 1..Len(archive'.calls) :
            archive'.calls[i].name = ImageName(pages[k].pageNum) =>
              archive'.calls[i].data = pages[k].imageData]_vars

(***************************************************************************)
(* C15. The NCX of a book with n pages has exactly n navPoints; the k-th   *)
(* has playOrder k, is labeled Page N for the pageNumber N of the k-th     *)
(* page and points at that page's markup document xhtml/page_NNN.xhtml;    *)
(* dtb:totalPageCount and dtb:maxPageNumber are n.                         *)
(***************************************************************************)
NavPointsFor(a, numberOf(_)) ==
  /\ Len(NCX(a).navMap) = Len(pages)
  /\ NCX(a).totalPageCount = String(Len(pages))
  /\ NCX(a).maxPageNumber = String(Len(pages))
  /\ \A k \in 1..Len(pages) :
       /\ NCX(a).navMap[k].playOrder = String(k)
       /\ NCX(a).navMap[k].text = "Page " \o String(numberOf(k))
       /\ NCX(a).navMap[k].src = "xhtml/page_" \o Num(numberOf(k)) \o ".xhtml"

PageNumberAt(k) == pages[k].pageNum

C15_NavPointsByPageNumber ==
  [][Generated => NavPointsFor(archive', PageNumberAt)]_vars

\* What does hold: the k-th navPoint is labeled and linked by position k.
PositionAt(k) == k

C15_NavPointsByPosition ==
  [][Generated => NavPointsFor(archive', PositionAt)]_vars

(***************************************************************************)
(* C18 as stated. In one generated archive the numeric part of every       *)
(* markup filename, image filename, manifest id and href, spine idref,     *)
(* NCX src and nav href has one common length, for every set of pages,     *)
(* page numbers above 999 included, and the markup filename and the image  *)
(* filename of a page embed the same padded number.                        *)
(***************************************************************************)
\* The part of name between a prefix and a suffix.
Between(name, prefix, suffix) ==
  SubSeq(name, Len(prefix) + 1, Len(name) - Len(suffix))

MarkupDigits(c) == Between(c.name, "OEBPS/xhtml/page_", ".xhtml")

ImageDigits(c) == Between(c.name, "OEBPS/images/page_", ".png")

DigitWidths(a) ==
  LET n == (Len(OPF(a).manifest) - 3) \div 2
  IN  { Len(MarkupDigits(a.calls[i])) :
          i \in { j \in 1..Len(a.calls) : IsMarkupCall(a.calls[j]) } }
        \cup { Len(ImageDigits(a.calls[i])) :
                 i \in { j \in 1..Len(a.calls) : IsImageCall(a.calls[j]) } }
        \cup { Len(Between(OPF(a).manifest[3 + k].id, "page", "")) : k \in 1..n }
        \cup { Len(Between(OPF(a).manifest[3 + k].href, "xhtml/page_", ".xhtml")) : k \in 1..n }
        \cup { Len(Between(OPF(a).manifest[3 + n + k].id, "img", "")) : k \in 1..n }
        \cup { Len(Between(OPF(a).manifest[3 + n + k].href, "images/page_", ".png")) : k \in 1..n }
        \cup { Len(Between(OPF(a).spine[k].idref, "page", "")) : k \in 1..Len(OPF(a).spine) }
        \cup { Len(Between(NCX(a).navMap[k].src, "xhtml/page_", ".xhtml")) : k \in 1..Len(NCX(a).navMap) }
        \cup { Len(Between(NAV(a).toc[k].href, "xhtml/page_", ".xhtml")) : k \in 1..Len(NAV(a).toc) }
        \cup { Len(Between(NAV(a).pageList[k].href, "xhtml/page_", ".xhtml")) : k \in 1..Len(NAV(a).pageList) }

SameNumberPerPage(a) ==
  \A i \in 1..Len(a.calls) :
    IsMarkupCall(a.calls[i]) =>
      /\ i < Len(a.calls)
      /\ IsImageCall(a.calls[i + 1])
      /\ ImageDigits(a.calls[i + 1]) = MarkupDigits(a.calls[i])

C18_OneDigitWidth ==
  archive.status = "ok" =>
    /\ Cardinality(DigitWidths(archive)) <= 1
    /\ SameNumberPerPage(archive)

(***************************************************************************)
(* C18 amended. In one generated archive whose pages are at most 999 and   *)
(* carry positive integer page numbers of at most 999, the numeric part    *)
(* of every markup filename, image filename, manifest id and href, spine   *)
(* idref, NCX src and nav href has the common length 3; for every set of   *)
(* pages the markup filename and the image filename of a page embed the    *)
(* same padded number.                                                     *)
(***************************************************************************)
C18_ThreeDigitsUpTo999 ==
  [][Generated =>
       /\ SameNumberPerPage(archive')
       /\ (Len(pages) <= 999 /\ \A k \in 1..Len(pages) : pages[k].pageNum <= 999) =>
            DigitWidths(archive') \subseteq {PadWidth}]_vars

C18_Witness ==
  /\ archive.status = "ok"
  /\ Len(archive.calls) >= 10
  /\ DigitWidths(archive) = {3}
  /\ MarkupDigits(archive.calls[7]) = "002"
  /\ ImageDigits(archive.calls[8]) = "002"
  /\ MarkupDigits(archive.calls[9]) = "001"

(***************************************************************************)
(* C16. When the archive writer fails - an entry write throws or the       *)
(* final serialization rejects - generate() ends with that same failure    *)
(* and delivers no archive; a generate() that delivers an archive          *)
(* delivers all the 6 + 2n entries of the n pages it was called with,      *)
(* never a part of them.                                                   *)
(***************************************************************************)
C16_WriterFailurePropagates ==
  [][/\ \A at \in FaultPointsNow, error \in WriterErrors :
          generateFails(at, error) =>
            /\ archive'.status = "failed"
            /\ archive'.error = error
            /\ archive'.calls = <<>>
     /\ Generated => Len(archive'.calls) = 6 + 2 * Len(pages)
     /\ (archive' # archive /\ archive'.status = "ok") =>
          archive.status = "pending" /\ archive'.calls = archive.calls
     /\ (archive' # archive /\ archive'.status = "failed") =>
          archive'.error \in WriterErrors /\ archive'.calls = <<>>]_vars

C16_Witness ==
  /\ archive.status = "failed"
  /\ archive.error = "EIO: i/o error"
  /\ archive.calls = <<>>
  /\ Len(pages) >= 1

(***************************************************************************)
(* C17. In a run of either caller the pages added so far carry the page    *)
(* numbers 1, 2, ... in this order, each added once and only after its     *)
(* render completed; generate() is invoked at most once per run, only      *)
(* when all totalPages pages have been added, and exactly once in a run    *)
(* that completes; no page is added once generate() has been invoked; a    *)
(* run that failed loading the PDF, fetching a page or rendering a page    *)
(* never invoked generate().                                               *)
(***************************************************************************)
PreGenerateErrors ==
  ReadErrors \cup BufferErrors \cup LoadErrors \cup PageErrors \cup RenderErrors

C17_CallerProtocol ==
  /\ [](/\ Len(pages) <= conv.totalPages
        /\ \A k \in 1..Len(pages) : pages[k].pageNum = k /\ k \in conv.rendered
        /\ conv.generates <= 1
        /\ conv.generates = 1 => Len(pages) = conv.totalPages
        /\ conv.pc \in {"generating", "done"} => conv.generates = 1
        /\ archive.status # "none" => conv.generates = 1
        /\ (conv.pc = "failed" /\ conv.error \in PreGenerateErrors) =>
             conv.generates = 0 /\ archive.status = "none")
  /\ [][(conv.generates >= 1 /\ conv'.generates >= 1) => pages' = pages]_vars

C17_Witness ==
  /\ conv.kind = "cli"
  /\ conv.pc = "done"
  /\ conv.totalPages = 2
  /\ Len(pages) = 2
  /\ conv.rendered = {1, 2}
  /\ conv.generates = 1
  /\ archive.status = "ok"

(***************************************************************************)
(* C19. In the browser App a run that set converting to true eventually    *)
(* sets it back to false, whichever of its awaits fails or if none does;   *)
(* while converting is true the Convert button is disabled and at most     *)
(* one run is in progress; a failed run leaves the status                  *)
(* 'Error: <message>' and triggers no download; a successful run leaves    *)
(* the status 'Complete!' after its download.                              *)
(***************************************************************************)
C19_ConvertingResets ==
  /\ [](conv.kind = "app" =>
          /\ conv.running <= 1
          /\ conv.running = 1 => conv.converting
          /\ conv.converting => ~ButtonEnabled
          /\ conv.pc = "failed" =>
               /\ conv.progress.status = "Error: " \o conv.error
               /\ conv.output = "none"
          /\ conv.pc = "done" =>
               /\ conv.progress.status = "Complete!"
               /\ conv.output = "downloaded")
  /\ (conv.kind = "app" /\ conv.converting) ~> ~conv.converting

C19_Witness ==
  /\ conv.kind = "app"
  /\ conv.pc = "failed"
  /\ conv.error \in RenderErrors
  /\ conv.progress.status = "Error: Rendering cancelled"
  /\ conv.rendered = {1}
  /\ ~conv.converting
  /\ conv.running = 0

====
